---- MODULE Spec2Model ----
(***************************************************************************)
(* The statement lifecycle of odbc-rs (src/statement/mod.rs): a Statement  *)
(* value wraps one native statement handle (Raii<ffi::Stmt>) and carries   *)
(* its phase (Allocated / HasResult) as a type parameter.  The caller is   *)
(* any program the Rust type and borrow checker accepts; the ODBC driver   *)
(* answers every call with a return code of its choice.                    *)
(***************************************************************************)
EXTENDS Integers, FiniteSets, Sequences, TLC

\* ------------------------------------------------------------------ bounds
\* Statements the caller keeps alive at the same time.  A handle below is a
\* slot of the driver: once released it may be handed out again.
MaxLive == 1
\* Largest result set the driver produces.
MaxRows == 3
\* Columns of the result set of a catalog query or of a statement other than
\* the example's; get_data is asked for one column more.
MaxCols == 2
\* Rows the table of the example holds at most.
MaxInserts == 1

Handles == 1..MaxLive

\* ------------------------------------------------------ ffi::SQLRETURN
SQL_INVALID_HANDLE == "SQL_INVALID_HANDLE"
SQL_ERROR == "SQL_ERROR"
SQL_SUCCESS == "SQL_SUCCESS"
SQL_SUCCESS_WITH_INFO == "SQL_SUCCESS_WITH_INFO"
SQL_STILL_EXECUTING == "SQL_STILL_EXECUTING"
SQL_NEED_DATA == "SQL_NEED_DATA"
SQL_NO_DATA == "SQL_NO_DATA"

SQLRETURN ==
    {SQL_INVALID_HANDLE, SQL_ERROR, SQL_SUCCESS, SQL_SUCCESS_WITH_INFO,
     SQL_STILL_EXECUTING, SQL_NEED_DATA, SQL_NO_DATA}

\* ------------------------------------------------------ Return<T>, Result<T>
Success(v) == [tag |-> "Success", val |-> v]
SuccessWithInfo(v) == [tag |-> "SuccessWithInfo", val |-> v]
Error == [tag |-> "Error", val |-> "none"]
\* panic!: no Return value is produced, the stack unwinds.
Panic == [tag |-> "Panic", val |-> "none"]

\* Return::into_result: Success and SuccessWithInfo become Ok, Error becomes
\* Err; a panic raised while computing the Return never reaches it.
into_result(ret) ==
    CASE ret.tag = "Success" -> [tag |-> "Ok", val |-> ret.val]
      [] ret.tag = "SuccessWithInfo" -> [tag |-> "Ok", val |-> ret.val]
      [] ret.tag = "Error" -> [tag |-> "Err", val |-> "none"]
      [] OTHER -> [tag |-> "Panic", val |-> "none"]

\* ------------------------------------------------------ statement text length
\* statement_text.len() is a usize; SQLINTEGER is an i32.  A length is kept as
\* two limbs, hi * 2^16 + lo, so that lengths beyond 2^31 - 1 can be written.
Base == 2 ^ 16
Usize(hi, lo) == [hi |-> hi, lo |-> lo]
GT(a, b) == a.hi > b.hi \/ (a.hi = b.hi /\ a.lo > b.lo)

\* ffi::SQLINTEGER::max_value() as usize = 2^31 - 1
SQLINTEGER_max_value == Usize(Base \div 2 - 1, Base - 1)

\* `length as ffi::SQLINTEGER`: the low 32 bits, read as two's complement.
as_SQLINTEGER(length) ==
    LET h == length.hi % Base
    IN  IF h >= Base \div 2 THEN (h - Base) * Base + length.lo
                            ELSE h * Base + length.lo

\* A non-negative SQLINTEGER widened back to limbs.
Widen(i) == Usize(i \div Base, i % Base)

\* The statements of the example: the table STAGE is created, a row is
\* inserted, the rows are read back.
CreateTable == "CREATE TABLE STAGE (A TEXT, B TEXT);"
InsertRow == "INSERT INTO STAGE (A, B) VALUES ('Hello', 'World');"
SelectRows == "SELECT A, B FROM STAGE"
Queries == {CreateTable, InsertRow, SelectRows}

\* statement_text.len()
TextLength(text) == Usize(0, Len(text))

\* Lengths the caller passes: those of the example's statements and the
\* values around the i32 and the u32 limits.
TextLengths ==
    {TextLength(q) : q \in Queries} \cup
    {Usize(Base \div 2 - 1, Base - 1), Usize(Base \div 2, 0),
     Usize(Base - 1, Base - 1), Usize(Base, 35)}

\* The texts of a given length: the example's statements of that length, and
\* some other statement.
TextsOfLength(length) ==
    {q \in Queries : TextLength(q) = length} \cup {"other"}

\* ------------------------------------------------------ impl Raii<ffi::Stmt>
\* Each operator is the match on the return code of the ffi call.

\* num_result_cols, with the count left at its initial 0 on success-with-info.
Raii_num_result_cols_info_loses_count(rc, num_cols) ==
    CASE rc = SQL_SUCCESS -> Success(num_cols)
      [] rc = SQL_SUCCESS_WITH_INFO -> SuccessWithInfo(0)
      [] rc = SQL_ERROR -> Error
      [] OTHER -> Panic

\* num_cols is the count SQLNumResultCols wrote.
Raii_num_result_cols(rc, num_cols) ==
    CASE rc = SQL_SUCCESS -> Success(num_cols)
      [] rc = SQL_SUCCESS_WITH_INFO -> SuccessWithInfo(num_cols)
      [] rc = SQL_ERROR -> Error
      [] OTHER -> Panic

\* The length check made against the unsigned 32-bit maximum.
TextTooLong_u32(length) == GT(length, Usize(Base - 1, Base - 1))

\* The length check that precedes SQLExecDirect.
TextTooLong(length) == GT(length, SQLINTEGER_max_value)

\* exec_direct, with the no-data code read as a result set.
Raii_exec_direct_no_data_is_data(length, rc) ==
    IF TextTooLong(length) THEN Panic
    ELSE CASE rc = SQL_SUCCESS -> Success(TRUE)
           [] rc = SQL_SUCCESS_WITH_INFO -> SuccessWithInfo(TRUE)
           [] rc = SQL_ERROR -> Error
           [] rc = SQL_NO_DATA -> Success(TRUE)
           [] OTHER -> Panic

\* rc is the code SQLExecDirect returned; it is not called for a text that
\* is too long.
Raii_exec_direct(length, rc) ==
    IF TextTooLong(length) THEN Panic
    ELSE CASE rc = SQL_SUCCESS -> Success(TRUE)
           [] rc = SQL_SUCCESS_WITH_INFO -> SuccessWithInfo(TRUE)
           [] rc = SQL_ERROR -> Error
           [] rc = SQL_NEED_DATA -> Panic
           [] rc = SQL_NO_DATA -> Success(FALSE)
           [] OTHER -> Panic

\* fetch, with the end of the result set taken for an error.
Raii_fetch_no_data_is_error(rc) ==
    CASE rc = SQL_SUCCESS -> Success(TRUE)
      [] rc = SQL_SUCCESS_WITH_INFO -> SuccessWithInfo(TRUE)
      [] rc = SQL_ERROR -> Error
      [] rc = SQL_NO_DATA -> Error
      [] OTHER -> Panic

Raii_fetch(rc) ==
    CASE rc = SQL_SUCCESS -> Success(TRUE)
      [] rc = SQL_SUCCESS_WITH_INFO -> SuccessWithInfo(TRUE)
      [] rc = SQL_ERROR -> Error
      [] rc = SQL_NO_DATA -> Success(FALSE)
      [] OTHER -> Panic

\* The filters tables passes to SQLTables, each with its length in bytes.
catalog_name == ""
schema_name == ""
table_name == ""
table_type == "TABLE"

SQLTables_arguments ==
    [catalog |-> catalog_name, catalog_len |-> Len(catalog_name),
     schema |-> schema_name, schema_len |-> Len(schema_name),
     table |-> table_name, table_len |-> Len(table_name),
     type |-> table_type, type_len |-> Len(table_type)]

\* No arguments: the call is not SQLTables.
NoArguments ==
    [catalog |-> "none", catalog_len |-> 0, schema |-> "none", schema_len |-> 0,
     table |-> "none", table_len |-> 0, type |-> "none", type_len |-> 0]

\* tables, with the no-data code accepted as an empty catalog.
Raii_tables_accepts_no_data(rc) ==
    CASE rc = SQL_SUCCESS -> Success("unit")
      [] rc = SQL_SUCCESS_WITH_INFO -> SuccessWithInfo("unit")
      [] rc = SQL_ERROR -> Error
      [] rc = SQL_NO_DATA -> Success("unit")
      [] OTHER -> Panic

Raii_tables(rc) ==
    CASE rc = SQL_SUCCESS -> Success("unit")
      [] rc = SQL_SUCCESS_WITH_INFO -> SuccessWithInfo("unit")
      [] rc = SQL_ERROR -> Error
      [] OTHER -> Panic

\* close_cursor, without the arm for SQL_ERROR.
Raii_close_cursor_no_error_arm(rc) ==
    CASE rc = SQL_SUCCESS -> Success("unit")
      [] rc = SQL_SUCCESS_WITH_INFO -> SuccessWithInfo("unit")
      [] OTHER -> Panic

Raii_close_cursor(rc) ==
    CASE rc = SQL_SUCCESS -> Success("unit")
      [] rc = SQL_SUCCESS_WITH_INFO -> SuccessWithInfo("unit")
      [] rc = SQL_ERROR -> Error
      [] OTHER -> Panic

\* Raii::with_parent (SQLAllocHandle against the data source).
Raii_with_parent(rc) ==
    CASE rc = SQL_SUCCESS -> Success("raii")
      [] rc = SQL_SUCCESS_WITH_INFO -> SuccessWithInfo("raii")
      [] rc = SQL_ERROR -> Error
      [] OTHER -> Panic

\* Output::get_data (SQLGetData into the cursor's buffer): a null indicator
\* decodes to None.
Output_get_data(rc, isNull) ==
    CASE rc = SQL_SUCCESS -> Success(IF isNull THEN "None" ELSE "Some")
      [] rc = SQL_SUCCESS_WITH_INFO ->
            SuccessWithInfo(IF isNull THEN "None" ELSE "Some")
      [] rc = SQL_ERROR -> Error
      [] OTHER -> Panic

\* ------------------------------------------------------ the driver
\* The diagnostic records a call answered with rc leaves on the handle, in
\* place of those of the call before: none after plain success, at least one
\* after success-with-info or an error.
DiagRecords(rc) == IF rc \in {SQL_SUCCESS_WITH_INFO, SQL_ERROR} THEN 1 ELSE 0

\* The state the driver keeps for a statement handle: whether a result set
\* (cursor) is open, its number of rows and columns, how many rows have been
\* fetched, and the query it answers.
NoResultSet ==
    [open |-> FALSE, rows |-> 0, pos |-> 0, cols |-> 0, sql |-> "none"]

\* A result set of n rows and c columns, just opened for query sql.
ResultSet(n, c, sql) ==
    [open |-> TRUE, rows |-> n, pos |-> 0, cols |-> c, sql |-> sql]

Succeeded(rc) == rc \in {SQL_SUCCESS, SQL_SUCCESS_WITH_INFO}

\* The codes the driver may answer a call with, given its state r.  A call
\* that needs an open cursor cannot succeed without one, one that opens a
\* cursor cannot succeed while one is open, and SQLFetch reports rows while
\* some are left and SQL_NO_DATA after the last.
DriverCodes(call, r) ==
    CASE call \in {"SQLExecDirect", "SQLTables"} ->
            IF r.open
            THEN SQLRETURN \ {SQL_SUCCESS, SQL_SUCCESS_WITH_INFO, SQL_NO_DATA}
            ELSE SQLRETURN
      [] call = "SQLFetch" ->
            IF ~r.open
            THEN SQLRETURN \ {SQL_SUCCESS, SQL_SUCCESS_WITH_INFO, SQL_NO_DATA}
            ELSE IF r.pos < r.rows THEN SQLRETURN \ {SQL_NO_DATA}
            ELSE SQLRETURN \ {SQL_SUCCESS, SQL_SUCCESS_WITH_INFO}
      [] call = "SQLCloseCursor" ->
            IF r.open THEN SQLRETURN
            ELSE SQLRETURN \ {SQL_SUCCESS, SQL_SUCCESS_WITH_INFO}
      [] call = "SQLGetData" ->
            IF r.open /\ r.pos >= 1 THEN SQLRETURN
            ELSE SQLRETURN \ {SQL_SUCCESS, SQL_SUCCESS_WITH_INFO}
      [] OTHER -> SQLRETURN

\* The table STAGE in the data source: NoTable, or its number of rows.
NoTable == 0 - 1

\* The codes the driver may answer SQLExecDirect of text sql with: a table
\* cannot be created twice, nor written or read before it is created, and it
\* holds MaxInserts rows at most.
ExecCodes(sql, r, st) ==
    LET codes == DriverCodes("SQLExecDirect", r)
        failing == codes \ {SQL_SUCCESS, SQL_SUCCESS_WITH_INFO, SQL_NO_DATA}
    IN  CASE sql = CreateTable -> IF st = NoTable THEN codes ELSE failing
          [] sql = InsertRow ->
                IF st # NoTable /\ st < MaxInserts THEN codes ELSE failing
          [] sql = SelectRows -> IF st # NoTable THEN codes ELSE failing
          [] OTHER -> codes

\* The table after SQLExecDirect of sql was answered with rc.
StageAfter(sql, rc, st) ==
    IF rc \in {SQL_SUCCESS, SQL_SUCCESS_WITH_INFO, SQL_NO_DATA}
    THEN CASE sql = CreateTable -> 0
           [] sql = InsertRow -> st + 1
           [] OTHER -> st
    ELSE st

\* The result sets SQLExecDirect of sql opens when it succeeds: the rows of
\* STAGE in two columns for the SELECT, an empty one without columns for a
\* statement that returns no rows, any for another statement.
ExecResults(sql, st) ==
    CASE sql = SelectRows -> {ResultSet(st, 2, sql)}
      [] sql \in {CreateTable, InsertRow} -> {ResultSet(0, 0, sql)}
      [] OTHER -> {ResultSet(n, MaxCols, sql) : n \in 0..MaxRows}

\* The value of a column of the current row: the row inserted into STAGE is
\* ('Hello', 'World').
Cell(r, col) ==
    IF r.sql = SelectRows THEN (IF col = 1 THEN "Hello" ELSE "World")
    ELSE "value"

\* Whether the driver may report a column null: the columns of STAGE's rows
\* are not.
Nulls(rc, r) ==
    IF Succeeded(rc) /\ r.sql # SelectRows THEN BOOLEAN ELSE {FALSE}

\* The codes the driver may answer SQLGetData of column col with: it cannot
\* succeed for a column the result set does not have.
GetDataCodes(r, col) ==
    IF col <= r.cols THEN DriverCodes("SQLGetData", r)
    ELSE DriverCodes("SQLGetData", r) \ {SQL_SUCCESS, SQL_SUCCESS_WITH_INFO}

\* The result sets a call answered with rc may open.
ResultSizes(rc) == IF Succeeded(rc) THEN 0..MaxRows ELSE {0}

\* The driver's state after answering rc; opened is the result set a
\* successful query opens.
DriverAfter(call, rc, r, opened) ==
    CASE call \in {"SQLExecDirect", "SQLTables"} /\ Succeeded(rc) -> opened
      [] call = "SQLFetch" /\ Succeeded(rc) -> [r EXCEPT !.pos = r.pos + 1]
      [] call = "SQLCloseCursor" /\ Succeeded(rc) -> NoResultSet
      [] OTHER -> r

\* ------------------------------------------------------ state
VARIABLES
    ds,        \* the DataSource<Connected>: "connected" or "dropped"
    stmts,     \* per handle, the live Statement values wrapping it, by phase
    native,    \* per handle: "unallocated", "allocated" or "freed"
    frees,     \* per handle, how often the native handle was released
    cursors,   \* per handle, the rows for which a Cursor value is live
    rs,        \* per handle, the driver's result set
    fetched,   \* per handle, the rows fetch has returned Some for
    stage,     \* the table STAGE of the data source
    last       \* the operation just performed and its outcome

vars == <<ds, stmts, native, frees, cursors, rs, fetched, stage, last>>

Phases == {"Allocated", "HasResult"}

\* ------------------------------------------------------ struct Statement, Cursor
\* Methods, with fetch also offered by the impl block of Allocated.
Methods_fetch_on_Allocated(S) ==
    CASE S = "Allocated" -> {"tables", "exec_direct", "fetch"}
      [] S = "HasResult" -> {"num_result_cols", "fetch", "close_cursor"}
      [] OTHER -> {}

\* The methods each impl block gives a Statement<S>.
Methods(S) ==
    CASE S = "Allocated" -> {"tables", "exec_direct"}
      [] S = "HasResult" -> {"num_result_cols", "fetch", "close_cursor"}
      [] OTHER -> {}

\* A Cursor holding no borrow of its statement.
Borrowed_never(h) == FALSE

\* Cursor.stmt is a &mut borrow of the statement: while a Cursor is live the
\* statement can be neither used nor moved nor dropped.
Borrowed(h) == cursors[h] # {}

\* A Statement holding no borrow of its data source.
ParentBorrowed_never == FALSE

\* Statement.parent borrows the DataSource for 'a: while a Statement is live
\* the data source cannot be dropped.
ParentBorrowed == \E h \in Handles : stmts[h] # {}

\* Dropping a Raii<ffi::Stmt> releases the native handle (SQLFreeHandle).
Raii_drop(nat) == "freed"

\* The protocol calls dropping a Raii<ffi::Stmt> issues.
Raii_drop_calls == <<"SQLFreeHandle">>

\* Dropping a statement, with an open cursor closed first.
Statement_drop_closes_cursor(S) ==
    IF S = "HasResult" THEN <<"SQLCloseCursor">> \o Raii_drop_calls
    ELSE Raii_drop_calls

\* The protocol calls dropping a Statement<S> issues.  Statement has no Drop
\* of its own: its fields are dropped, and of raii, parent, state and bound
\* only raii owns anything.
Statement_drop(S) == Raii_drop_calls

\* The protocol calls of a method that takes self by value and issued the
\* calls in issued: those of dropping self are added when self was dropped.
CallsOf(issued, r, S) ==
    IF r.selfDropped THEN issued \o Statement_drop(S) ELSE issued

\* ------------------------------------------------------ impl Statement
\* What each method hands back: `out` the variant of its result, `value` the
\* Statement values returned to the caller (wrapping self.raii), and
\* `selfDropped` whether self, raii included, is dropped inside the call (the
\* early return of `?`, or unwinding) instead of moved into the result.
Statement_with_parent(res) ==
    CASE res.tag = "Ok" -> [out |-> "Ok", value |-> {"Allocated"}]
      [] res.tag = "Err" -> [out |-> "Err", value |-> {}]
      [] OTHER -> [out |-> "Panic", value |-> {}]

\* tables, handing back a statement without a result set.
Statement_tables_returns_allocated(res) ==
    CASE res.tag = "Ok" ->
            [out |-> "Ok", value |-> {"Allocated"}, selfDropped |-> FALSE]
      [] res.tag = "Err" -> [out |-> "Err", value |-> {}, selfDropped |-> TRUE]
      [] OTHER -> [out |-> "Panic", value |-> {}, selfDropped |-> TRUE]

\* tables, with self.raii not dropped when the call panics.
Statement_tables_panic_leaks(res) ==
    CASE res.tag = "Ok" ->
            [out |-> "Ok", value |-> {"HasResult"}, selfDropped |-> FALSE]
      [] res.tag = "Err" -> [out |-> "Err", value |-> {}, selfDropped |-> TRUE]
      [] OTHER -> [out |-> "Panic", value |-> {}, selfDropped |-> FALSE]

Statement_tables(res) ==
    CASE res.tag = "Ok" ->
            [out |-> "Ok", value |-> {"HasResult"}, selfDropped |-> FALSE]
      [] res.tag = "Err" -> [out |-> "Err", value |-> {}, selfDropped |-> TRUE]
      [] OTHER -> [out |-> "Panic", value |-> {}, selfDropped |-> TRUE]

\* exec_direct, giving the statement back to the caller when it fails.
Statement_exec_direct_error_keeps_self(res) ==
    CASE res.tag = "Ok" ->
            IF res.val
            THEN [out |-> "Data", value |-> {"HasResult"}, selfDropped |-> FALSE]
            ELSE [out |-> "NoData", value |-> {"Allocated"}, selfDropped |-> FALSE]
      [] res.tag = "Err" ->
            [out |-> "Err", value |-> {"Allocated"}, selfDropped |-> FALSE]
      [] OTHER -> [out |-> "Panic", value |-> {}, selfDropped |-> TRUE]

\* exec_direct, with the two variants exchanged.
Statement_exec_direct_swapped(res) ==
    CASE res.tag = "Ok" ->
            IF res.val
            THEN [out |-> "NoData", value |-> {"Allocated"}, selfDropped |-> FALSE]
            ELSE [out |-> "Data", value |-> {"HasResult"}, selfDropped |-> FALSE]
      [] res.tag = "Err" -> [out |-> "Err", value |-> {}, selfDropped |-> TRUE]
      [] OTHER -> [out |-> "Panic", value |-> {}, selfDropped |-> TRUE]

\* exec_direct, with the result built around a copy of the raw handle while
\* self is still dropped.
Statement_exec_direct_copies_handle(res) ==
    CASE res.tag = "Ok" ->
            IF res.val
            THEN [out |-> "Data", value |-> {"HasResult"}, selfDropped |-> TRUE]
            ELSE [out |-> "NoData", value |-> {"Allocated"}, selfDropped |-> TRUE]
      [] res.tag = "Err" -> [out |-> "Err", value |-> {}, selfDropped |-> TRUE]
      [] OTHER -> [out |-> "Panic", value |-> {}, selfDropped |-> TRUE]

Statement_exec_direct(res) ==
    CASE res.tag = "Ok" ->
            IF res.val
            THEN [out |-> "Data", value |-> {"HasResult"}, selfDropped |-> FALSE]
            ELSE [out |-> "NoData", value |-> {"Allocated"}, selfDropped |-> FALSE]
      [] res.tag = "Err" -> [out |-> "Err", value |-> {}, selfDropped |-> TRUE]
      [] OTHER -> [out |-> "Panic", value |-> {}, selfDropped |-> TRUE]

\* The phase after a borrowing method, with the end of the result set
\* taking the statement back to Allocated.
Statement_after_borrow_end_resets(S, out) ==
    IF out = "None" THEN "Allocated" ELSE S

\* num_result_cols(&self), fetch(&mut self) and Cursor::get_data (through
\* stmt: &mut Statement) borrow the statement: whatever they return, it stays
\* with its owner as the same Statement<S>.
Statement_after_borrow(S, out) == S

Statement_num_result_cols(res) ==
    CASE res.tag = "Ok" -> "Ok"
      [] res.tag = "Err" -> "Err"
      [] OTHER -> "Panic"

Statement_fetch(res) ==
    CASE res.tag = "Ok" -> IF res.val THEN "Some" ELSE "None"
      [] res.tag = "Err" -> "Err"
      [] OTHER -> "Panic"

\* close_cursor, with the result left in the phase of its receiver.
Statement_close_cursor_keeps_phase(res) ==
    CASE res.tag = "Ok" ->
            [out |-> "Ok", value |-> {"HasResult"}, selfDropped |-> FALSE]
      [] res.tag = "Err" -> [out |-> "Err", value |-> {}, selfDropped |-> TRUE]
      [] OTHER -> [out |-> "Panic", value |-> {}, selfDropped |-> TRUE]

\* close_cursor, with the outcome of SQLCloseCursor ignored instead of `?`.
Statement_close_cursor_ignores_error(res) ==
    CASE res.tag \in {"Ok", "Err"} ->
            [out |-> "Ok", value |-> {"Allocated"}, selfDropped |-> FALSE]
      [] OTHER -> [out |-> "Panic", value |-> {}, selfDropped |-> TRUE]

Statement_close_cursor(res) ==
    CASE res.tag = "Ok" ->
            [out |-> "Ok", value |-> {"Allocated"}, selfDropped |-> FALSE]
      [] res.tag = "Err" -> [out |-> "Err", value |-> {}, selfDropped |-> TRUE]
      [] OTHER -> [out |-> "Panic", value |-> {}, selfDropped |-> TRUE]

\* get_data, with a null column surfaced as an error.
Cursor_get_data_null_is_error(res) ==
    CASE res.tag = "Ok" -> IF res.val = "None" THEN "Err" ELSE res.val
      [] res.tag = "Err" -> "Err"
      [] OTHER -> "Panic"

\* Cursor::get_data hands on what the decoder returned.
Cursor_get_data(res) ==
    CASE res.tag = "Ok" -> res.val
      [] res.tag = "Err" -> "Err"
      [] OTHER -> "Panic"

\* ------------------------------------------------------ operations
NoLength == Usize(0, 0)

\* The record kept of an operation: the method, the handle, the driver's
\* return code ("none" when no call was issued), the outcome handed to the
\* caller, the phase of the receiver, the driver's cursor state and the native
\* handle's state when the call was made, the text length given and the
\* length passed on, the row of the cursor used, and the diagnostic records
\* the call left on the handle.  The fields an action
\* adds to it: the query text, the column count returned, and for get_data
\* the column asked for, whether the driver reported it null, and the value
\* decoded; tables adds the arguments of SQLTables, and every operation the
\* protocol calls it issued, in order.
Record(op, h, rc, out, recv, length, passed, row) ==
    [op |-> op, h |-> h, rc |-> rc, out |-> out, recv |-> recv,
     open |-> rs[h].open, nat |-> native[h],
     len |-> length, passed |-> passed, row |-> row,
     diag |-> DiagRecords(rc),
     sql |-> "none", n |-> 0, col |-> 0, null |-> FALSE, val |-> "none",
     args |-> NoArguments, calls |-> <<>>]

Init ==
    /\ ds = "connected"
    /\ stmts = [h \in Handles |-> {}]
    /\ native = [h \in Handles |-> "unallocated"]
    /\ frees = [h \in Handles |-> 0]
    /\ cursors = [h \in Handles |-> {}]
    /\ rs = [h \in Handles |-> NoResultSet]
    /\ fetched = [h \in Handles |-> 0]
    /\ stage = NoTable
    /\ last = [op |-> "none", h |-> 0, rc |-> "none", out |-> "none",
               recv |-> "none", open |-> FALSE, nat |-> "none",
               len |-> NoLength, passed |-> 0, row |-> 0,
               diag |-> 0, sql |-> "none", n |-> 0, col |-> 0,
               null |-> FALSE, val |-> "none", args |-> NoArguments,
               calls |-> <<>>]

\* The release of handle h's native resource; a second release is counted,
\* a third no further.
Released(h) ==
    /\ native' = [native EXCEPT ![h] = Raii_drop(@)]
    /\ frees' = [frees EXCEPT ![h] = IF @ < 2 THEN @ + 1 ELSE @]

\* A method that takes self by value: the receiver is gone, the values in
\* r.value take its place, and self.raii is released if it was dropped.  The
\* result set it leaves, if any, is a new one.
Consume(h, recv, r, after) ==
    /\ stmts' = [stmts EXCEPT ![h] = (@ \ {recv}) \cup r.value]
    /\ IF r.selfDropped
       THEN Released(h) /\ rs' = [rs EXCEPT ![h] = NoResultSet]
       ELSE UNCHANGED <<native, frees>> /\ rs' = [rs EXCEPT ![h] = after]
    /\ fetched' = [fetched EXCEPT ![h] = 0]
    /\ UNCHANGED <<ds, cursors>>

\* Statement::with_parent(&ds): the driver hands out the first slot that is
\* not in use; a fresh native handle has not been released yet.
with_parent(h) ==
    /\ ds = "connected"
    /\ native[h] # "allocated" /\ stmts[h] = {} /\ cursors[h] = {}
    /\ \A k \in Handles : k < h => native[k] = "allocated"
    /\ \E rc \in DriverCodes("SQLAllocHandle", rs[h]) :
          LET r == Statement_with_parent(into_result(Raii_with_parent(rc)))
          IN  /\ stmts' = [stmts EXCEPT ![h] = r.value]
              /\ native' = [native EXCEPT
                              ![h] = IF r.value # {} THEN "allocated" ELSE @]
              /\ frees' = [frees EXCEPT ![h] = IF r.value # {} THEN 0 ELSE @]
              /\ last' = [Record("with_parent", h, rc, r.out, "none",
                                 NoLength, 0, 0)
                            EXCEPT !.calls = <<"SQLAllocHandle">>]
    /\ UNCHANGED <<ds, cursors, rs, fetched, stage>>

tables(h) ==
    \E recv \in stmts[h] :
       /\ "tables" \in Methods(recv)
       /\ ~Borrowed(h)
       /\ \E rc \in DriverCodes("SQLTables", rs[h]) :
          \E n \in ResultSizes(rc) :
             LET r == Statement_tables(into_result(Raii_tables(rc)))
             IN  /\ Consume(h, recv, r,
                            DriverAfter("SQLTables", rc, rs[h],
                                        ResultSet(n, MaxCols, "other")))
                 /\ last' = [Record("tables", h, rc, r.out, recv,
                                    NoLength, 0, 0)
                               EXCEPT !.args = SQLTables_arguments,
                                      !.calls = CallsOf(<<"SQLTables">>,
                                                        r, recv)]
       /\ UNCHANGED stage

exec_direct(h, length) ==
    \E recv \in stmts[h], sql \in TextsOfLength(length) :
       /\ "exec_direct" \in Methods(recv)
       /\ ~Borrowed(h)
       /\ \/ /\ TextTooLong(length)
             /\ LET r == Statement_exec_direct(
                             into_result(Raii_exec_direct(length, "none")))
                IN  /\ Consume(h, recv, r, rs[h])
                    /\ last' = [Record("exec_direct", h, "none", r.out, recv,
                                       length, 0, 0)
                                  EXCEPT !.sql = sql,
                                         !.calls = CallsOf(<<>>, r, recv)]
             /\ UNCHANGED stage
          \/ /\ ~TextTooLong(length)
             /\ \E rc \in ExecCodes(sql, rs[h], stage) :
                \E opened \in IF Succeeded(rc) THEN ExecResults(sql, stage)
                                               ELSE {NoResultSet} :
                   LET r == Statement_exec_direct(
                                into_result(Raii_exec_direct(length, rc)))
                   IN  /\ Consume(h, recv, r,
                                  DriverAfter("SQLExecDirect", rc, rs[h], opened))
                       /\ stage' = StageAfter(sql, rc, stage)
                       /\ last' = [Record("exec_direct", h, rc, r.out, recv,
                                          length, as_SQLINTEGER(length), 0)
                                     EXCEPT !.sql = sql,
                                            !.calls = CallsOf(
                                               <<"SQLExecDirect">>, r, recv)]

num_result_cols(h) ==
    \E recv \in stmts[h] :
       /\ "num_result_cols" \in Methods(recv)
       /\ ~Borrowed(h)
       /\ \E rc \in DriverCodes("SQLNumResultCols", rs[h]) :
             LET res == into_result(Raii_num_result_cols(rc, rs[h].cols))
                 out == Statement_num_result_cols(res)
             IN  /\ stmts' = [stmts EXCEPT
                                ![h] = (@ \ {recv})
                                          \cup {Statement_after_borrow(recv, out)}]
                 /\ last' = [Record("num_result_cols", h, rc, out,
                                    recv, NoLength, 0, 0)
                               EXCEPT !.n = IF res.tag = "Ok" THEN res.val ELSE 0,
                                      !.calls = <<"SQLNumResultCols">>]
       /\ UNCHANGED <<ds, native, frees, cursors, rs, fetched, stage>>

\* fetch(&mut self): Some(cursor) borrows the statement for the row fetched.
fetch(h) ==
    \E recv \in stmts[h] :
       /\ "fetch" \in Methods(recv)
       /\ ~Borrowed(h)
       /\ \E rc \in DriverCodes("SQLFetch", rs[h]) :
             LET out == Statement_fetch(into_result(Raii_fetch(rc)))
                 after == DriverAfter("SQLFetch", rc, rs[h], rs[h])
             IN  /\ stmts' = [stmts EXCEPT
                                ![h] = (@ \ {recv})
                                          \cup {Statement_after_borrow(recv, out)}]
                 /\ rs' = [rs EXCEPT ![h] = after]
                 /\ cursors' = [cursors EXCEPT
                                  ![h] = IF out = "Some" THEN @ \cup {after.pos}
                                                         ELSE @]
                 /\ fetched' = [fetched EXCEPT
                                  ![h] = IF out = "Some" THEN @ + 1 ELSE @]
                 /\ last' = [Record("fetch", h, rc, out, recv,
                                    NoLength, 0, 0)
                               EXCEPT !.calls = <<"SQLFetch">>]
       /\ UNCHANGED <<ds, native, frees, stage>>

close_cursor(h) ==
    \E recv \in stmts[h] :
       /\ "close_cursor" \in Methods(recv)
       /\ ~Borrowed(h)
       /\ \E rc \in DriverCodes("SQLCloseCursor", rs[h]) :
             LET r == Statement_close_cursor(into_result(Raii_close_cursor(rc)))
             IN  /\ Consume(h, recv, r,
                            DriverAfter("SQLCloseCursor", rc, rs[h], rs[h]))
                 /\ last' = [Record("close_cursor", h, rc, r.out, recv,
                                    NoLength, 0, 0)
                               EXCEPT !.calls = CallsOf(<<"SQLCloseCursor">>,
                                                        r, recv)]
       /\ UNCHANGED stage

\* Cursor::get_data(&mut self, col): reads a column of the cursor's row.
get_data(h) ==
    \E row \in cursors[h], col \in 1..(MaxCols + 1), recv \in stmts[h] :
       /\ \E rc \in GetDataCodes(rs[h], col) :
          \E isNull \in Nulls(rc, rs[h]) :
             LET out == Cursor_get_data(
                            into_result(Output_get_data(rc, isNull)))
             IN  /\ stmts' = [stmts EXCEPT
                                ![h] = (@ \ {recv})
                                          \cup {Statement_after_borrow(recv, out)}]
                 /\ last' = [Record("get_data", h, rc, out, recv,
                                    NoLength, 0, row)
                               EXCEPT !.col = col, !.null = isNull,
                                      !.calls = <<"SQLGetData">>,
                                      !.val = IF out = "Some"
                                              THEN Cell(rs[h], col) ELSE "none"]
       /\ UNCHANGED <<ds, native, frees, cursors, rs, fetched, stage>>

\* The Cursor goes out of scope: the borrow of the statement ends.
drop_cursor(h) ==
    \E row \in cursors[h] :
       /\ cursors' = [cursors EXCEPT ![h] = @ \ {row}]
       /\ last' = Record("drop_cursor", h, "none", "none", "none",
                         NoLength, 0, row)
       /\ UNCHANGED <<ds, stmts, native, frees, rs, fetched, stage>>

\* The Statement goes out of scope in any phase: its raii is dropped.
drop_statement(h) ==
    \E recv \in stmts[h] :
       /\ ~Borrowed(h)
       /\ stmts' = [stmts EXCEPT ![h] = @ \ {recv}]
       /\ Released(h)
       /\ rs' = [rs EXCEPT ![h] = NoResultSet]
       /\ fetched' = [fetched EXCEPT ![h] = 0]
       /\ last' = [Record("drop_statement", h, "none", "none", recv,
                          NoLength, 0, 0)
                     EXCEPT !.calls = Statement_drop(recv)]
       /\ UNCHANGED <<ds, cursors, stage>>

\* The DataSource goes out of scope.
drop_data_source ==
    /\ ds = "connected"
    /\ ~ParentBorrowed
    /\ ds' = "dropped"
    /\ UNCHANGED <<stmts, native, frees, cursors, rs, fetched, stage, last>>

Next ==
    \/ \E h \in Handles : with_parent(h)
    \/ \E h \in Handles : tables(h)
    \/ \E h \in Handles, length \in TextLengths : exec_direct(h, length)
    \/ \E h \in Handles : num_result_cols(h)
    \/ \E h \in Handles : fetch(h)
    \/ \E h \in Handles : close_cursor(h)
    \/ \E h \in Handles : get_data(h)
    \/ \E h \in Handles : drop_cursor(h)
    \/ \E h \in Handles : drop_statement(h)
    \/ drop_data_source

Spec == Init /\ [][Next]_vars

\* ------------------------------------------------------ properties
SubmitOps == {"tables", "exec_direct"}
ResultOps == {"num_result_cols", "fetch", "close_cursor"}
ProtocolOps == SubmitOps \cup ResultOps \cup {"get_data"}

\* C1: a statement in the Allocated (NoResult) phase offers exec_direct and
\* tables only: fetch, num_result_cols and close_cursor are not enabled on
\* it, and whenever one of them was performed its receiver was in HasResult
\* and the driver held a result set opened by an earlier successful
\* exec_direct or tables on that handle.
C1_AllocatedOnlySubmits ==
    /\ \A h \in Handles :
          stmts[h] = {"Allocated"} =>
             /\ ~ENABLED fetch(h)
             /\ ~ENABLED num_result_cols(h)
             /\ ~ENABLED close_cursor(h)
    /\ last.op \in ResultOps => last.recv = "HasResult" /\ last.open

C1_Witness ==
    /\ last.op = "exec_direct" /\ last.out = "NoData"
    /\ stmts[last.h] = {"Allocated"}
    /\ ENABLED tables(last.h)

\* C2: a query is never submitted on a handle whose result set is open: the
\* receiver of exec_direct or tables is in the Allocated phase and the driver
\* holds no open result set for it, and no Allocated value exists while the
\* result set of its handle is open (only a successful close_cursor, or the
\* release of the handle, closes it).
C2_NoSubmitWhileHasResult ==
    /\ last.op \in SubmitOps => last.recv = "Allocated" /\ ~last.open
    /\ \A h \in Handles : rs[h].open => "Allocated" \notin stmts[h]

C2_Witness ==
    /\ last.op = "close_cursor" /\ last.out = "Ok" /\ last.open
    /\ ~rs[last.h].open
    /\ \E length \in TextLengths : ENABLED exec_direct(last.h, length)

\* C3: the native handle is released exactly once: it is live exactly while
\* one Statement value owns it, it has been released once exactly when it is
\* no longer live, no protocol call or release is made on a released handle,
\* and never is it released a second time.
C3_ReleasedExactlyOnce ==
    /\ \A h \in Handles :
          /\ frees[h] <= 1
          /\ Cardinality(stmts[h]) <= 1
          /\ (native[h] = "allocated") = (stmts[h] # {})
          /\ (native[h] = "allocated") => frees[h] = 0
          /\ (native[h] = "freed") => frees[h] = 1
    /\ last.op \in ProtocolOps \cup {"drop_statement"} => last.nat = "allocated"

\* allocate followed by discard: nothing is left live.
C3_Witness ==
    /\ last.op = "drop_statement" /\ last.recv = "Allocated"
    /\ \A h \in Handles : native[h] # "allocated" /\ stmts[h] = {}
    /\ frees[last.h] = 1

\* C4: an exec_direct that returns Ok returns exactly one of two variants
\* around the handle it was given: Data, a HasResult statement, exactly when
\* the driver answered success or success-with-info, and NoData, an Allocated
\* statement, exactly when it answered SQL_NO_DATA.  The receiver is consumed:
\* the returned value is the only statement left on the handle, which is
\* still live.
C4_ExecutedVariant ==
    last.op = "exec_direct" =>
       /\ Succeeded(last.rc) = (last.out = "Data")
       /\ (last.rc = SQL_NO_DATA) = (last.out = "NoData")
       /\ last.out = "Data" =>
             stmts[last.h] = {"HasResult"} /\ native[last.h] = "allocated"
       /\ last.out = "NoData" =>
             stmts[last.h] = {"Allocated"} /\ native[last.h] = "allocated"
       /\ last.out \in {"Data", "NoData"} => rs[last.h].open = (last.out = "Data")

C4_Witness ==
    /\ last.op = "exec_direct" /\ last.out = "Data"
    /\ last.rc = SQL_SUCCESS_WITH_INFO
    /\ stmts[last.h] = {"HasResult"}

C6_CloseCursorRoundTrip ==
    /\ last.op = "close_cursor" /\ last.out = "Ok" =>
          /\ stmts[last.h] = {"Allocated"}
          /\ native[last.h] = "allocated" /\ frees[last.h] = 0
          /\ ~rs[last.h].open
    /\ \A h \in Handles :
          (last.op \in {"close_cursor", "exec_direct"} /\ last.h = h
             /\ last.out \in {"Ok", "NoData"}) =>
             /\ \A length \in TextLengths : ENABLED exec_direct(h, length)
             /\ SQL_SUCCESS \in DriverCodes("SQLExecDirect", rs[h])

C6_Witness ==
    /\ last.op = "close_cursor" /\ last.out = "Ok" /\ last.open
    /\ stmts[last.h] = {"Allocated"} /\ frees[last.h] = 0

\* C7: a Cursor is valid for the row it was fetched for: at most one is live
\* per statement, it is the cursor of the driver's current row of an open
\* result set of a live HasResult statement, while it is live neither fetch
\* nor num_result_cols nor close_cursor nor a drop of the statement is
\* enabled, and every get_data read the driver's current row.
C7_CursorOneRow ==
    /\ \A h \in Handles :
          /\ Cardinality(cursors[h]) <= 1
          /\ cursors[h] # {} =>
                /\ cursors[h] = {rs[h].pos}
                /\ rs[h].open /\ rs[h].pos >= 1
                /\ stmts[h] = {"HasResult"} /\ native[h] = "allocated"
                /\ ~ENABLED fetch(h)
                /\ ~ENABLED num_result_cols(h)
                /\ ~ENABLED close_cursor(h)
                /\ ~ENABLED drop_statement(h)
    /\ last.op = "get_data" =>
          /\ last.open /\ last.nat = "allocated"
          /\ last.row = rs[last.h].pos

C7_Witness ==
    /\ last.op = "get_data" /\ last.out = "Some" /\ last.row = 2
    /\ cursors[last.h] = {2}

\* C8: the data source outlives its statements: once it is dropped no native
\* statement handle is live and no Statement or Cursor value is left.
C8_ConnectionOutlivesStatements ==
    ds = "dropped" =>
       \A h \in Handles :
          native[h] # "allocated" /\ stmts[h] = {} /\ cursors[h] = {}

C8_Witness ==
    ds = "dropped" /\ \E h \in Handles : native[h] = "freed" /\ frees[h] = 1

\* C9: exec_direct with a text longer than SQLINTEGER::max_value() bytes
\* panics (it returns neither Ok nor Err) and SQLExecDirect is not called;
\* with a text of at most that length, the maximum included, SQLExecDirect is
\* called with the length unchanged.
C9_TextLengthLimit ==
    last.op = "exec_direct" =>
       IF GT(last.len, SQLINTEGER_max_value)
       THEN last.out = "Panic" /\ last.rc = "none"
       ELSE /\ last.rc # "none"
            /\ last.passed >= 0
            /\ Widen(last.passed) = last.len

C9_WitnessMax ==
    /\ last.op = "exec_direct" /\ last.len = SQLINTEGER_max_value
    /\ last.passed = 2147483647 /\ last.out = "Data"

\* C10: for exec_direct, tables, fetch, num_result_cols, close_cursor and
\* get_data, the error code SQL_ERROR always reaches the caller as Err, and
\* Err and panic are disjoint: Err is returned for SQL_ERROR only, and a
\* panic is raised for no code that is answered with Ok or Err.
C10_ErrorIsRecoverable ==
    last.op \in ProtocolOps =>
       /\ (last.rc = SQL_ERROR) = (last.out = "Err")
       /\ last.out = "Panic" =>
             last.rc \notin {SQL_SUCCESS, SQL_SUCCESS_WITH_INFO, SQL_ERROR}
       /\ last.rc \in {SQL_SUCCESS, SQL_SUCCESS_WITH_INFO} =>
             last.out \notin {"Err", "Panic"}

C10_Witness ==
    last.op = "close_cursor" /\ last.rc = SQL_ERROR /\ last.out = "Err"
       /\ native[last.h] = "freed"

\* C11: a call answered with success-with-info is treated as one answered
\* with success: exec_direct returns Data and tables Ok, both leaving a
\* HasResult statement, fetch returns Some with a cursor on the row,
\* close_cursor returns Ok leaving an Allocated statement, num_result_cols
\* returns the driver's column count, get_data returns the column read; the
\* handle is still live, so the diagnostic records the call left on it, at
\* least one, can still be read.
C11_SuccessWithInfoIsSuccess ==
    (last.op \in ProtocolOps /\ last.rc = SQL_SUCCESS_WITH_INFO) =>
       /\ native[last.h] = "allocated" /\ frees[last.h] = 0
       /\ last.diag >= 1
       /\ last.op = "exec_direct" =>
             last.out = "Data" /\ stmts[last.h] = {"HasResult"}
       /\ last.op = "tables" =>
             last.out = "Ok" /\ stmts[last.h] = {"HasResult"}
       /\ last.op = "fetch" =>
             /\ last.out = "Some" /\ stmts[last.h] = {"HasResult"}
             /\ cursors[last.h] = {rs[last.h].pos}
       /\ last.op = "close_cursor" =>
             last.out = "Ok" /\ stmts[last.h] = {"Allocated"}
       /\ last.op = "num_result_cols" =>
             /\ last.out = "Ok" /\ last.n = rs[last.h].cols
             /\ stmts[last.h] = {"HasResult"}
       /\ last.op = "get_data" =>
             /\ last.out = (IF last.null THEN "None" ELSE "Some")
             /\ stmts[last.h] = {"HasResult"}

C11_Witness ==
    /\ last.op = "num_result_cols" /\ last.rc = SQL_SUCCESS_WITH_INFO
    /\ last.out = "Ok" /\ last.n = 2 /\ last.diag >= 1

\* The statements of the scenario that return no rows.
C12_NoRowStatements == {CreateTable, InsertRow}

\* exec_direct returned a statement for one of them.
C12_NoRowStatementExecuted ==
    /\ last.op = "exec_direct" /\ last.sql \in C12_NoRowStatements
    /\ last.out \in {"Data", "NoData"}

\* The scenario's SELECT over STAGE holding the one row inserted: when the
\* driver serves it, exec_direct yields Data of two columns, num_result_cols
\* returns 2, the first fetch that returns a row or None returns Some, with
\* column 1 read as "Hello" and column 2 as "World", and the next returns
\* None.
C12_SelectOfOneRow ==
    /\ (last.op = "exec_direct" /\ last.sql = SelectRows
          /\ Succeeded(last.rc)) =>
          /\ last.out = "Data" /\ stmts[last.h] = {"HasResult"}
          /\ rs[last.h].cols = 2 /\ rs[last.h].rows = stage
    /\ (last.op = "num_result_cols" /\ rs[last.h].sql = SelectRows
          /\ last.out = "Ok") => last.n = 2
    /\ (last.op = "fetch" /\ rs[last.h].sql = SelectRows
          /\ rs[last.h].rows = 1) =>
          /\ last.out = "Some" => fetched[last.h] = 1 /\ cursors[last.h] = {1}
          /\ last.out = "None" => fetched[last.h] = 1 /\ cursors[last.h] = {}
    /\ (last.op = "get_data" /\ rs[last.h].sql = SelectRows
          /\ Succeeded(last.rc)) =>
          /\ last.out = "Some"
          /\ last.col = 1 => last.val = "Hello"
          /\ last.col = 2 => last.val = "World"

\* C12 as stated: exec_direct of the CREATE TABLE, and of the INSERT on the
\* Allocated statement it returned, yields NoData; the SELECT yields Data of
\* two columns, a first fetch Some ("Hello", "World") and a second None.
C12_ScenarioAsStated ==
    /\ C12_NoRowStatementExecuted => last.out = "NoData"
    /\ C12_SelectOfOneRow

\* C12, amended: exec_direct of the CREATE TABLE or the INSERT yields NoData,
\* an Allocated statement, exactly when the driver answers with the no-data
\* code; when it answers with success it yields Data, an empty result set
\* that close_cursor can close.  The SELECT is as stated.
C12_ScenarioByDriverAnswer ==
    /\ C12_NoRowStatementExecuted =>
          /\ last.out = "NoData" <=> last.rc = SQL_NO_DATA
          /\ last.out = "Data" <=> Succeeded(last.rc)
          /\ last.out = "NoData" =>
                stmts[last.h] = {"Allocated"} /\ ~rs[last.h].open
          /\ last.out = "Data" =>
                /\ stmts[last.h] = {"HasResult"}
                /\ rs[last.h].open /\ rs[last.h].rows = 0
                /\ ENABLED close_cursor(last.h)
    /\ C12_SelectOfOneRow

C12_Witness ==
    /\ last.op = "fetch" /\ last.out = "None"
    /\ rs[last.h].sql = SelectRows /\ rs[last.h].rows = 1
    /\ rs[last.h].cols = 2 /\ fetched[last.h] = 1

\* C13: get_data of a column the driver reports as the null sentinel returns
\* Ok(None), not an error and not a panic; get_data of a column the driver
\* reports with a value returns Ok(Some(value)), the value being the column's.
C13_NullIsNone ==
    (last.op = "get_data" /\ Succeeded(last.rc)) =>
       /\ last.null => last.out = "None" /\ last.val = "none"
       /\ ~last.null =>
             last.out = "Some" /\ last.val = Cell(rs[last.h], last.col)
       /\ last.row \in cursors[last.h]

C13_Witness ==
    /\ last.op = "get_data" /\ last.rc = SQL_SUCCESS
    /\ last.null /\ last.out = "None"

C13_WitnessValue ==
    /\ last.op = "get_data" /\ last.rc = SQL_SUCCESS
    /\ ~last.null /\ last.out = "Some" /\ last.val = "value"

\* The return codes documented for a call of impl Raii<ffi::Stmt>: success,
\* success-with-info and error, and the no-data code for fetch and exec_direct.
C14_Documented(op) ==
    {SQL_SUCCESS, SQL_SUCCESS_WITH_INFO, SQL_ERROR}
       \cup (IF op \in {"fetch", "exec_direct"} THEN {SQL_NO_DATA} ELSE {})

C14_Calls ==
    {"tables", "exec_direct", "num_result_cols", "fetch", "close_cursor"}

\* C14: a call answered with a code outside its documented set panics, and
\* returns neither Ok nor Err; a code inside the set never panics.  The
\* no-data code is an outcome of fetch (None) and exec_direct (NoData) only,
\* and panics in tables, num_result_cols and close_cursor; a need-data code
\* from exec_direct panics.
C14_UndocumentedCodePanics ==
    (last.op \in C14_Calls /\ last.rc # "none") =>
       /\ last.rc \notin C14_Documented(last.op) <=> last.out = "Panic"
       /\ last.rc = SQL_NO_DATA =>
             /\ last.op = "fetch" => last.out = "None"
             /\ last.op = "exec_direct" => last.out = "NoData"
             /\ last.op \in {"tables", "num_result_cols", "close_cursor"} =>
                   last.out = "Panic"
       /\ (last.op = "exec_direct" /\ last.rc = SQL_NEED_DATA) =>
             last.out = "Panic"

C14_Witness ==
    last.op = "tables" /\ last.rc = SQL_NO_DATA /\ last.out = "Panic"

C14_WitnessNeedData ==
    last.op = "exec_direct" /\ last.rc = SQL_NEED_DATA /\ last.out = "Panic"

\* The methods that take the statement by value.
C15_ConsumingCalls == {"tables", "exec_direct", "close_cursor"}

\* C15: a panic does not leak the native handle.  A panic in tables,
\* exec_direct (the over-long text included) or close_cursor unwinds through
\* the statement the method owns: the handle has been released, once, when
\* the panic reaches the caller.  A panic in fetch or num_result_cols leaves
\* the statement with its owner, live and not released, and dropping it, which
\* releases the handle, is possible.
C15_ReleasedAfterPanic ==
    (last.op \in C14_Calls /\ last.out = "Panic") =>
       /\ last.op \in C15_ConsumingCalls =>
             /\ stmts[last.h] = {}
             /\ native[last.h] = "freed" /\ frees[last.h] = 1
       /\ last.op \notin C15_ConsumingCalls =>
             /\ stmts[last.h] = {"HasResult"}
             /\ native[last.h] = "allocated" /\ frees[last.h] = 0
             /\ ENABLED drop_statement(last.h)

C15_Witness ==
    /\ last.op = "exec_direct" /\ TextTooLong(last.len)
    /\ last.rc = "none" /\ last.out = "Panic"
    /\ native[last.h] = "freed" /\ frees[last.h] = 1

C15_WitnessFetch ==
    /\ last.op = "fetch" /\ last.out = "Panic"
    /\ native[last.h] = "allocated" /\ ENABLED drop_statement(last.h)

\* C16: tables that succeeds, with success or success-with-info, hands back
\* the same handle, not released, in the HasResult phase with a result set
\* open: fetch, num_result_cols and close_cursor can be called and
\* exec_direct cannot, for any text.  The call carries empty catalog, schema
\* and table-name filters and the table-type filter "TABLE".
C16_TablesYieldsResult ==
    /\ (last.op = "tables" /\ Succeeded(last.rc)) =>
          /\ last.out = "Ok" /\ last.recv = "Allocated"
          /\ stmts[last.h] = {"HasResult"} /\ rs[last.h].open
          /\ native[last.h] = "allocated" /\ frees[last.h] = 0
          /\ ENABLED fetch(last.h)
          /\ ENABLED num_result_cols(last.h)
          /\ ENABLED close_cursor(last.h)
          /\ \A length \in TextLengths : ~ENABLED exec_direct(last.h, length)
    /\ last.op = "tables" =>
          /\ last.args.catalog = "" /\ last.args.catalog_len = 0
          /\ last.args.schema = "" /\ last.args.schema_len = 0
          /\ last.args.table = "" /\ last.args.table_len = 0
          /\ last.args.type = "TABLE" /\ last.args.type_len = 5

C16_Witness ==
    /\ last.op = "tables" /\ last.rc = SQL_SUCCESS_WITH_INFO
    /\ stmts[last.h] = {"HasResult"} /\ last.args.type = "TABLE"

\* C17: exec_direct, tables or close_cursor that returns an error hands no
\* statement back: none is left for the handle in either phase, the native
\* handle has been released, once, by the failed call, no method can be
\* called on it and no statement is left to drop; while the data source is
\* connected a new statement can be allocated from it.
C17_ErrorConsumesStatement ==
    (last.op \in C15_ConsumingCalls /\ last.out = "Err") =>
       /\ last.rc = SQL_ERROR
       /\ stmts[last.h] = {} /\ cursors[last.h] = {}
       /\ native[last.h] = "freed" /\ frees[last.h] = 1
       /\ ~rs[last.h].open
       /\ ~ENABLED tables(last.h)
       /\ \A length \in TextLengths : ~ENABLED exec_direct(last.h, length)
       /\ ~ENABLED num_result_cols(last.h)
       /\ ~ENABLED fetch(last.h)
       /\ ~ENABLED close_cursor(last.h)
       /\ ~ENABLED get_data(last.h)
       /\ ~ENABLED drop_statement(last.h)
       /\ ds = "connected" => \E k \in Handles : ENABLED with_parent(k)

C17_Witness ==
    /\ last.op = "close_cursor" /\ last.out = "Err"
    /\ last.recv = "HasResult" /\ native[last.h] = "freed"

C17_WitnessExecDirect ==
    /\ last.op = "exec_direct" /\ last.out = "Err"
    /\ last.recv = "Allocated" /\ native[last.h] = "freed"

\* The methods that borrow the statement.
C18_BorrowingCalls == {"fetch", "num_result_cols", "get_data"}

\* C18: fetch, num_result_cols and get_data leave the statement in HasResult
\* whatever they return, with its handle live and its result set open.  After
\* fetch returned None, an error or a panic, fetch and close_cursor can be
\* called and neither exec_direct, for any text, nor tables can.
C18_BorrowingKeepsPhase ==
    last.op \in C18_BorrowingCalls =>
       /\ last.recv = "HasResult" /\ stmts[last.h] = {"HasResult"}
       /\ native[last.h] = "allocated" /\ frees[last.h] = 0
       /\ rs[last.h].open = last.open
       /\ (last.op = "fetch" /\ last.out # "Some") =>
             /\ ENABLED fetch(last.h)
             /\ ENABLED close_cursor(last.h)
             /\ \A length \in TextLengths : ~ENABLED exec_direct(last.h, length)
             /\ ~ENABLED tables(last.h)

C18_Witness ==
    /\ last.op = "fetch" /\ last.out = "None" /\ rs[last.h].rows >= 1
    /\ stmts[last.h] = {"HasResult"}

C18_WitnessError ==
    /\ last.op = "fetch" /\ last.out = "Err"
    /\ stmts[last.h] = {"HasResult"}

C18_WitnessGetData ==
    /\ last.op = "get_data" /\ last.out = "Err"
    /\ stmts[last.h] = {"HasResult"}

\* C19: dropping a statement in HasResult, its result set still open, issues
\* no close-cursor call: the release of the native handle, once, is the only
\* protocol call of the drop.  A close-cursor call is issued by close_cursor
\* alone.
C19_DropDoesNotCloseCursor ==
    /\ (last.op = "drop_statement" /\ last.recv = "HasResult") =>
          /\ last.calls = <<"SQLFreeHandle">>
          /\ stmts[last.h] = {}
          /\ native[last.h] = "freed" /\ frees[last.h] = 1
    /\ (\E i \in 1..Len(last.calls) : last.calls[i] = "SQLCloseCursor") =>
          last.op = "close_cursor"

C19_Witness ==
    /\ last.op = "drop_statement" /\ last.recv = "HasResult" /\ last.open
    /\ last.calls = <<"SQLFreeHandle">> /\ frees[last.h] = 1

====
